---- MODULE Spec2Model ----
(***************************************************************************)
(* opyplus/util.py: run_subprocess, redirect_stream and _redirect_stream.  *)
(*                                                                         *)
(* One call of run_subprocess is modelled as four concurrent parties: the  *)
(* supervisor (the calling thread), the two relay threads started by       *)
(* redirect_stream, and the child process at the other end of the two      *)
(* pipes.  Every step is one call or one test of the source.               *)
(***************************************************************************)
EXTENDS Integers, Sequences, FiniteSets, TLC

\* ---------------------------------------------------------------- bounds
MaxLines == 2       \* lines the child writes in total, over both streams
PipeCap == 1        \* lines one pipe holds before the child's write blocks
MaxBeats == 2       \* timeouts of the bounded wait that are explored
MaxExitCode == 1    \* the child exits with a code in 0..MaxExitCode
MaxStrLen == 3      \* characters of a text argument, bytes of a bytes argument

\* ------------------------------------------------------------- constants
Streams == {"out", "err"}
Supervisor == "supervisor"
None == <<>>
EOS == <<>>                                    \* readline() returning ""
Placeholder == <<"unicode decode error">>
Message == <<"subprocess is still running\n">>
Line(s, i) == <<"line", s, i>>                 \* the i-th line written to s
ExitCodes == 0..MaxExitCode
SigPipe == <<-13>>                             \* killed writing to a closed pipe

\* The child's programme: which stream each of its writes goes to, in order.
Scripts(n) == UNION {[1..k -> Streams] : k \in 0..n}

\* A child that writes more lines to one stream than a pipe and one read hold.
FloodScripts == {[i \in 1..(PipeCap + 2) |-> s] : s \in Streams}

VARIABLES
    beat_freq,    \* "none" or "set": the beat_freq argument
    hasFlush,     \* [Streams -> BOOLEAN]: hasattr(dst, "flush")
    script,       \* the writes the child still has to make, in order
    proc,         \* "none", "running", "exited"
    status,       \* None, or <<code>>: the status the child exited with
    wrote,        \* [Streams -> Nat]: lines the child has written to s
    pipe,         \* [Streams -> Seq]: lines written and not yet read
    rdOpen,       \* the parent's ends of the pipes are open
    t,            \* [Streams -> pc]: the relay threads
    content,      \* [Streams -> text]: the relay's local `content`
    stop_event,   \* [Streams -> BOOLEAN]
    decodeErr,    \* [Streams -> SUBSET Nat]: lines whose read raised
    sink,         \* [Streams -> Seq([by, text])]: writes each sink received
    sup,          \* the supervisor's position in run_subprocess
    exc,          \* an exception is propagating out of the wait loop
    returncode,   \* sub_p.returncode: None or <<code>>
    result,       \* the value run_subprocess returned, None before
    timeouts,     \* TimeoutExpired raised so far
    flushes,      \* [Streams -> Nat]: dst.flush() calls that returned
    stopAt,       \* [Streams -> Nat]: writes relay s had made at stop_event.set()
    \* get_string_buffer and to_buffer
    call,               \* "idle", or the function that has been called
    path_or_content,    \* the argument of the call
    expected_extension, \* the second argument of get_string_buffer
    files,              \* the paths os.path.isfile answers True for
    ret                 \* what the call did and returned

bufVars == <<call, path_or_content, expected_extension, files, ret>>

procVars == <<beat_freq, hasFlush, script, proc, status, wrote, pipe, rdOpen,
              t, content, stop_event, decodeErr, sink, sup, exc, returncode,
              result, timeouts, flushes, stopAt>>

vars == <<procVars, bufVars>>

childVars == <<script, proc, status, wrote>>
relayVars == <<t, content, decodeErr>>
supVars == <<sup, exc, returncode, result, timeouts>>
argVars == <<beat_freq, hasFlush>>

Terminated(s) == t[s] \in {"eof", "stopped", "dead"}

\* What relay s wrote to its sink, in order.
RelayWrites(s) == SelectSeq(sink[s], LAMBDA e : e.by = s)

\* No call of get_string_buffer or to_buffer is under way.
PyNone == [type |-> "NoneType", id |-> 0, val |-> <<>>]
NoCall == [raised |-> "none", value |-> <<>>, isfile |-> <<>>, opened |-> <<>>]
BufIdle ==
    /\ call = "idle"
    /\ path_or_content = PyNone
    /\ expected_extension = <<>>
    /\ files = {}
    /\ ret = NoCall

\* run_subprocess before its first statement
ProcInit ==
    /\ proc = "none"
    /\ status = None
    /\ wrote = [s \in Streams |-> 0]
    /\ pipe = [s \in Streams |-> <<>>]
    /\ rdOpen = FALSE
    /\ t = [s \in Streams |-> "none"]
    /\ content = [s \in Streams |-> None]
    /\ stop_event = [s \in Streams |-> FALSE]
    /\ decodeErr = [s \in Streams |-> {}]
    /\ sink = [s \in Streams |-> <<>>]
    /\ sup = "popen"
    /\ exc = FALSE
    /\ returncode = None
    /\ result = None
    /\ timeouts = 0
    /\ flushes = [s \in Streams |-> 0]
    /\ stopAt = [s \in Streams |-> 0]

InitWith(scripts) ==
    /\ beat_freq \in {"none", "set"}
    /\ hasFlush \in [Streams -> BOOLEAN]
    /\ script \in scripts
    /\ ProcInit
    /\ BufIdle

Init == InitWith(Scripts(MaxLines))

InitFlood == InitWith(FloodScripts)

\* ------------------------------------------------------------ the child
\* The child writes the next line of its script; the write blocks while the
\* pipe is full, and kills the child once the parent has closed its end.
ChildWrite ==
    /\ proc = "running"
    /\ script # <<>>
    /\ LET s == Head(script) IN
        IF ~rdOpen
        THEN /\ proc' = "exited"
             /\ status' = SigPipe
             /\ UNCHANGED <<script, wrote, pipe>>
        ELSE /\ Len(pipe[s]) < PipeCap
             /\ pipe' = [pipe EXCEPT ![s] = Append(@, Line(s, wrote[s] + 1))]
             /\ wrote' = [wrote EXCEPT ![s] = @ + 1]
             /\ script' = Tail(script)
             /\ UNCHANGED <<proc, status>>
    /\ UNCHANGED <<bufVars, flushes, stopAt,
                   argVars, rdOpen, relayVars, stop_event, sink, supVars>>

ChildExit ==
    /\ proc = "running"
    /\ script = <<>>
    /\ \E c \in ExitCodes : status' = <<c>>
    /\ proc' = "exited"
    /\ UNCHANGED <<bufVars, flushes, stopAt,
                   argVars, script, wrote, pipe, rdOpen, relayVars, stop_event,
                   sink, supVars>>

\* ------------------------------------------------------- _redirect_stream
\* Seeded fault: the loop does not test the flag
RelayCheck_IgnoresStop(s) ==
    /\ t[s] = "check"
    /\ t' = [t EXCEPT ![s] = "read"]
    /\ UNCHANGED <<bufVars, flushes, stopAt,
                   argVars, childVars, pipe, rdOpen, content, stop_event,
                   decodeErr, sink, supVars>>

\* while not stop_event.is_set():
RelayCheck(s) ==
    /\ t[s] = "check"
    /\ t' = [t EXCEPT ![s] = IF stop_event[s] THEN "stopped" ELSE "read"]
    /\ UNCHANGED <<bufVars, flushes, stopAt,
                   argVars, childVars, pipe, rdOpen, content, stop_event,
                   decodeErr, sink, supVars>>

\* content = src.readline(), a line decoded
RelayReadLine(s) ==
    /\ t[s] = "read"
    /\ pipe[s] # <<>>
    /\ content' = [content EXCEPT ![s] = Head(pipe[s])]
    /\ pipe' = [pipe EXCEPT ![s] = Tail(@)]
    /\ t' = [t EXCEPT ![s] = "write"]
    /\ UNCHANGED <<bufVars, flushes, stopAt,
                   argVars, childVars, rdOpen, stop_event, decodeErr, sink,
                   supVars>>

\* Seeded fault: the decode error is not caught: the thread dies of it
RelayReadDecodeError_Uncaught(s) ==
    /\ t[s] = "read"
    /\ pipe[s] # <<>>
    /\ decodeErr' = [decodeErr EXCEPT ![s] = @ \cup {Head(pipe[s])[3]}]
    /\ pipe' = [pipe EXCEPT ![s] = Tail(@)]
    /\ t' = [t EXCEPT ![s] = "dead"]
    /\ UNCHANGED <<bufVars, flushes, stopAt,
                   argVars, childVars, rdOpen, content, stop_event, sink,
                   supVars>>

\* except UnicodeDecodeError: content = "unicode decode error"
RelayReadDecodeError(s) ==
    /\ t[s] = "read"
    /\ pipe[s] # <<>>
    /\ content' = [content EXCEPT ![s] = Placeholder]
    /\ decodeErr' = [decodeErr EXCEPT ![s] = @ \cup {Head(pipe[s])[3]}]
    /\ pipe' = [pipe EXCEPT ![s] = Tail(@)]
    /\ t' = [t EXCEPT ![s] = "write"]
    /\ UNCHANGED <<bufVars, flushes, stopAt,
                   argVars, childVars, rdOpen, stop_event, sink, supVars>>

\* Seeded fault: the write end of the pipe is never seen closed
RelayReadEOS_Never(s) ==
    /\ FALSE
    /\ UNCHANGED vars

\* Seeded fault: the end-of-stream test comes after the write: "" is written too
RelayReadEOS_WritesMarker(s) ==
    /\ t[s] = "read"
    /\ pipe[s] = <<>>
    /\ proc = "exited"
    /\ content' = [content EXCEPT ![s] = EOS]
    /\ sink' = [sink EXCEPT ![s] = Append(@, [by |-> s, text |-> EOS])]
    /\ t' = [t EXCEPT ![s] = "eof"]
    /\ UNCHANGED <<bufVars, flushes, stopAt,
                   argVars, childVars, pipe, rdOpen, stop_event, decodeErr,
                   supVars>>

\* readline() returns "" once the pipe is drained and its write end closed;
\* if content == "": break
RelayReadEOS(s) ==
    /\ t[s] = "read"
    /\ pipe[s] = <<>>
    /\ proc = "exited"
    /\ content' = [content EXCEPT ![s] = EOS]
    /\ t' = [t EXCEPT ![s] = "eof"]
    /\ UNCHANGED <<bufVars, flushes, stopAt,
                   argVars, childVars, pipe, rdOpen, stop_event, decodeErr,
                   sink, supVars>>

\* Seeded fault: flush is called without testing that the sink has one
RelayWrite_AlwaysFlush(s) ==
    /\ t[s] = "write"
    /\ sink' = [sink EXCEPT ![s] = Append(@, [by |-> s, text |-> content[s]])]
    /\ t' = [t EXCEPT ![s] = "flush"]
    /\ UNCHANGED <<bufVars, flushes, stopAt,
                   argVars, childVars, pipe, rdOpen, content, stop_event,
                   decodeErr, supVars>>

\* dst.write(content)
RelayWrite(s) ==
    /\ t[s] = "write"
    /\ sink' = [sink EXCEPT ![s] = Append(@, [by |-> s, text |-> content[s]])]
    /\ t' = [t EXCEPT ![s] = IF hasFlush[s] THEN "flush" ELSE "check"]
    /\ UNCHANGED <<bufVars, flushes, stopAt,
                   argVars, childVars, pipe, rdOpen, content, stop_event,
                   decodeErr, supVars>>

\* dst.flush()
RelayFlush(s) ==
    /\ t[s] = "flush"
    /\ t' = [t EXCEPT ![s] = "check"]
    /\ flushes' = [flushes EXCEPT ![s] = @ + 1]
    /\ UNCHANGED <<bufVars, stopAt,
                   argVars, childVars, pipe, rdOpen, content, stop_event,
                   decodeErr, sink, supVars>>

\* dst.write or dst.flush raises: nothing in the thread catches it
RelayDies(s) ==
    /\ t[s] \in {"write", "flush"}
    /\ t' = [t EXCEPT ![s] = "dead"]
    /\ UNCHANGED <<bufVars, flushes, stopAt,
                   argVars, childVars, pipe, rdOpen, content, stop_event,
                   decodeErr, sink, supVars>>

\* ---------------------------------------------------------- run_subprocess
\* subprocess.Popen(...) starts the child
PopenStarts ==
    /\ sup = "popen"
    /\ proc' = "running"
    /\ rdOpen' = TRUE
    /\ sup' = "enter_out"
    /\ UNCHANGED <<bufVars, flushes, stopAt,
                   argVars, script, status, wrote, pipe, relayVars,
                   stop_event, sink, exc, returncode, result, timeouts>>

\* Seeded fault: the start-up failure is reported through the error sink
PopenFails_Reported ==
    /\ sup = "popen"
    /\ sup' = "raised"
    /\ exc' = TRUE
    /\ sink' = [sink EXCEPT !["err"] =
                  Append(@, [by |-> Supervisor, text |-> Message])]
    /\ UNCHANGED <<bufVars, flushes, stopAt,
                   argVars, childVars, pipe, rdOpen, relayVars, stop_event,
                   returncode, result, timeouts>>

\* subprocess.Popen(...) raises: the command cannot be started
PopenFails ==
    /\ sup = "popen"
    /\ sup' = "raised"
    /\ exc' = TRUE
    /\ UNCHANGED <<bufVars, flushes, stopAt,
                   argVars, childVars, pipe, rdOpen, relayVars, stop_event,
                   sink, returncode, result, timeouts>>

\* redirect_stream.__enter__: a new Event, a new started thread
EnterRelay(s, next) ==
    /\ stop_event' = [stop_event EXCEPT ![s] = FALSE]
    /\ t' = [t EXCEPT ![s] = "check"]
    /\ sup' = next
    /\ UNCHANGED <<bufVars, flushes, stopAt,
                   argVars, childVars, pipe, rdOpen, content, decodeErr, sink,
                   exc, returncode, result, timeouts>>

EnterOut == sup = "enter_out" /\ EnterRelay("out", "enter_err")

EnterErr == sup = "enter_err" /\ EnterRelay("err", "wait")

\* sub_p.wait(timeout=beat_freq) returns: the child has terminated
WaitReturns ==
    /\ sup = "wait"
    /\ proc = "exited"
    /\ returncode' = status
    /\ sup' = "exit_err"
    /\ UNCHANGED <<bufVars, flushes, stopAt,
                   argVars, childVars, pipe, rdOpen, relayVars, stop_event,
                   sink, exc, result, timeouts>>

\* Seeded fault: the wait is bounded also when no beat period is given
WaitTimeout_NoPeriodTest ==
    /\ sup = "wait"
    /\ proc # "exited"
    /\ timeouts < MaxBeats
    /\ timeouts' = timeouts + 1
    /\ sup' = "beat"
    /\ UNCHANGED <<bufVars, flushes, stopAt,
                   argVars, childVars, pipe, rdOpen, relayVars, stop_event,
                   sink, exc, returncode, result>>

\* Seeded fault: TimeoutExpired is swallowed: the wait is repeated with no beat
WaitTimeout_Silent ==
    /\ sup = "wait"
    /\ beat_freq = "set"
    /\ proc # "exited"
    /\ timeouts < MaxBeats
    /\ timeouts' = timeouts + 1
    /\ sup' = "wait"
    /\ UNCHANGED <<bufVars, flushes, stopAt,
                   argVars, childVars, pipe, rdOpen, relayVars, stop_event,
                   sink, exc, returncode, result>>

\* sub_p.wait(timeout=beat_freq) raises TimeoutExpired
WaitTimeout ==
    /\ sup = "wait"
    /\ beat_freq = "set"
    /\ proc # "exited"
    /\ timeouts < MaxBeats
    /\ timeouts' = timeouts + 1
    /\ sup' = "beat"
    /\ UNCHANGED <<bufVars, flushes, stopAt,
                   argVars, childVars, pipe, rdOpen, relayVars, stop_event,
                   sink, exc, returncode, result>>

\* Seeded fault: the heartbeat overwrites the last write the sink received
BeatWrite_Clobbers ==
    /\ sup = "beat"
    /\ sink' = [sink EXCEPT !["out"] =
                  IF @ = <<>>
                  THEN <<[by |-> Supervisor, text |-> Message]>>
                  ELSE [@ EXCEPT ![Len(@)] =
                           [by |-> Supervisor, text |-> Message]]]
    /\ sup' = "wait"
    /\ UNCHANGED <<bufVars, flushes, stopAt,
                   argVars, childVars, pipe, rdOpen, relayVars, stop_event,
                   exc, returncode, result, timeouts>>

\* Seeded fault: the heartbeat goes to stderr
BeatWrite_ToStderr ==
    /\ sup = "beat"
    /\ sink' = [sink EXCEPT !["err"] =
                  Append(@, [by |-> Supervisor, text |-> Message])]
    /\ sup' = "wait"
    /\ UNCHANGED <<bufVars, flushes, stopAt,
                   argVars, childVars, pipe, rdOpen, relayVars, stop_event,
                   exc, returncode, result, timeouts>>

\* stdout.write(message); sys.stdout.flush()
BeatWrite ==
    /\ sup = "beat"
    /\ sink' = [sink EXCEPT !["out"] =
                  Append(@, [by |-> Supervisor, text |-> Message])]
    /\ sup' = "wait"
    /\ UNCHANGED <<bufVars, flushes, stopAt,
                   argVars, childVars, pipe, rdOpen, relayVars, stop_event,
                   exc, returncode, result, timeouts>>

\* stdout.write(message) returns and sys.stdout.flush() raises
BeatFlushRaises ==
    /\ sup = "beat"
    /\ sink' = [sink EXCEPT !["out"] =
                  Append(@, [by |-> Supervisor, text |-> Message])]
    /\ exc' = TRUE
    /\ sup' = "exit_err"
    /\ UNCHANGED <<bufVars, flushes, stopAt,
                   argVars, childVars, pipe, rdOpen, relayVars, stop_event,
                   returncode, result, timeouts>>

\* Seeded fault: the raise leaves run_subprocess with no finally clause run
BeatRaises_NoFinally ==
    /\ sup = "beat"
    /\ exc' = TRUE
    /\ sup' = "raised"
    /\ UNCHANGED <<bufVars, flushes, stopAt,
                   argVars, childVars, pipe, rdOpen, relayVars, stop_event,
                   sink, returncode, result, timeouts>>

\* stdout.write(message) raises
BeatRaises ==
    /\ sup = "beat"
    /\ exc' = TRUE
    /\ sup' = "exit_err"
    /\ UNCHANGED <<bufVars, flushes, stopAt,
                   argVars, childVars, pipe, rdOpen, relayVars, stop_event,
                   sink, returncode, result, timeouts>>

\* redirect_stream's finally: stop_event.set()
SetStop(s, next) ==
    /\ stop_event' = [stop_event EXCEPT ![s] = TRUE]
    /\ stopAt' = [stopAt EXCEPT ![s] = Len(RelayWrites(s))]
    /\ sup' = next
    /\ UNCHANGED <<bufVars, flushes,
                   argVars, childVars, pipe, rdOpen, relayVars, sink, exc,
                   returncode, result, timeouts>>

\* Seeded fault: the join does not wait for the thread
Join_NoWait(s, next) ==
    /\ sup' = next
    /\ UNCHANGED <<bufVars, flushes, stopAt,
                   argVars, childVars, pipe, rdOpen, relayVars, stop_event,
                   sink, exc, returncode, result, timeouts>>

\* redirect_stream's finally: t.join()
Join(s, next) ==
    /\ Terminated(s)
    /\ sup' = next
    /\ UNCHANGED <<bufVars, flushes, stopAt,
                   argVars, childVars, pipe, rdOpen, relayVars, stop_event,
                   sink, exc, returncode, result, timeouts>>

ExitErrSet == sup = "exit_err" /\ SetStop("err", "join_err")

ExitErrJoin == sup = "join_err" /\ Join("err", "exit_out")

ExitOutSet == sup = "exit_out" /\ SetStop("out", "join_out")

ExitOutJoin ==
    sup = "join_out" /\ Join("out", IF exc THEN "close" ELSE "return")

\* Seeded fault: a non-zero exit code is raised, as subprocess.check_call does
ReturnValue_CheckCall ==
    /\ sup = "return"
    /\ result' = IF returncode = <<0>> THEN returncode ELSE None
    /\ exc' = (returncode # <<0>>)
    /\ sup' = "close"
    /\ UNCHANGED <<bufVars, flushes, stopAt,
                   argVars, childVars, pipe, rdOpen, relayVars, stop_event,
                   sink, returncode, timeouts>>

\* return sub_p.returncode: the value is taken inside the Popen block
ReturnValue ==
    /\ sup = "return"
    /\ result' = returncode
    /\ sup' = "close"
    /\ UNCHANGED <<bufVars, flushes, stopAt,
                   argVars, childVars, pipe, rdOpen, relayVars, stop_event,
                   sink, exc, returncode, timeouts>>

\* Popen.__exit__: the pipes are closed
PopenClose ==
    /\ sup = "close"
    /\ rdOpen' = FALSE
    /\ sup' = "reap"
    /\ UNCHANGED <<bufVars, flushes, stopAt,
                   argVars, childVars, pipe, relayVars, stop_event, sink, exc,
                   returncode, result, timeouts>>

\* Seeded fault: the block is left without waiting for the child
PopenReap_NoWait ==
    /\ sup = "reap"
    /\ returncode' = status
    /\ sup' = IF exc THEN "raised" ELSE "returned"
    /\ UNCHANGED <<bufVars, flushes, stopAt,
                   argVars, childVars, pipe, rdOpen, relayVars, stop_event,
                   sink, exc, result, timeouts>>

\* Popen.__exit__: self.wait()
PopenReap ==
    /\ sup = "reap"
    /\ proc = "exited"
    /\ returncode' = status
    /\ sup' = IF exc THEN "raised" ELSE "returned"
    /\ UNCHANGED <<bufVars, flushes, stopAt,
                   argVars, childVars, pipe, rdOpen, relayVars, stop_event,
                   sink, exc, result, timeouts>>

Relay(s) ==
    \/ RelayCheck(s)
    \/ RelayReadLine(s)
    \/ RelayReadDecodeError(s)
    \/ RelayReadEOS(s)
    \/ RelayWrite(s)
    \/ RelayFlush(s)
    \/ RelayDies(s)

Next ==
    \/ ChildWrite
    \/ ChildExit
    \/ \E s \in Streams : Relay(s)
    \/ PopenStarts
    \/ PopenFails
    \/ EnterOut
    \/ EnterErr
    \/ WaitReturns
    \/ WaitTimeout
    \/ BeatWrite
    \/ BeatRaises
    \/ BeatFlushRaises
    \/ ExitErrSet
    \/ ExitErrJoin
    \/ ExitOutSet
    \/ ExitOutJoin
    \/ ReturnValue
    \/ PopenClose
    \/ PopenReap

Spec == Init /\ [][Next]_vars

\* The parties as the operating system schedules them: the child, each relay
\* thread and the calling thread run whenever they can.
Child == ChildWrite \/ ChildExit

SupervisorStep ==
    \/ PopenStarts
    \/ PopenFails
    \/ EnterOut
    \/ EnterErr
    \/ WaitReturns
    \/ WaitTimeout
    \/ BeatWrite
    \/ BeatRaises
    \/ BeatFlushRaises
    \/ ExitErrSet
    \/ ExitErrJoin
    \/ ExitOutSet
    \/ ExitOutJoin
    \/ ReturnValue
    \/ PopenClose
    \/ PopenReap

FairSpec ==
    /\ Spec
    /\ WF_vars(Child)
    /\ \A s \in Streams : WF_vars(Relay(s))
    /\ WF_vars(SupervisorStep)

\* The same program run on a child that floods one of its streams.
SpecFlood == InitFlood /\ [][Next]_vars

\* ------------------------------------------- get_string_buffer, to_buffer
\* Text is a sequence of characters, bytes a sequence of byte values; every
\* Python object is a record of its type, its identity (0 for a value that
\* is compared by content) and its content.
Chars == {"a", "x", "."}
Bytes == {"0x61", "0x2E", "0xFF"}
SeqsUpTo(S, n) == UNION {[1..k -> S] : k \in 0..n}
Texts == SeqsUpTo(Chars, MaxStrLen)
ByteStrings == SeqsUpTo(Bytes, MaxStrLen)
Extensions == {<<>>, <<"x">>, <<"a", "x">>}

Str(v) == [type |-> "str", id |-> 0, val |-> v]
Arguments ==
    {Str(v) : v \in Texts}
        \cup {[type |-> "bytes", id |-> 0, val |-> b] : b \in ByteStrings}
        \cup {[type |-> "TextIOBase", id |-> 1, val |-> <<"a">>]}
        \cup {[type |-> "BufferedIOBase", id |-> 1, val |-> b] :
                 b \in {<<"0x61">>, <<"0xFF">>}}
        \cup {[type |-> "int", id |-> 0, val |-> <<>>], PyNone}

\* s[-n:] for n > 0
Slice(v, n) == IF Len(v) <= n THEN v ELSE SubSeq(v, Len(v) - n + 1, Len(v))

\* b.decode(encoding=CONF.encoding): the byte 0xFF is not text
Decodable(b) == \A i \in 1..Len(b) : b[i] # "0xFF"
Decode(b) == [i \in 1..Len(b) |-> IF b[i] = "0x61" THEN "a" ELSE "."]

\* io.StringIO(v): a new in-memory text stream
StringIO(v) == [type |-> "StringIO", id |-> 2, val |-> v]
\* open(name, ...): a new text stream on the file
TextFile(name) == [type |-> "TextIOWrapper", id |-> 2, val |-> name]
Opened(name, mode, closed) == [name |-> name, mode |-> mode, closed |-> closed]

Returns(first, second, isfile, opened) ==
    [raised |-> "none", value |-> <<first, second>>, isfile |-> isfile,
     opened |-> opened]
Raises(error, isfile, opened) ==
    [raised |-> error, value |-> <<>>, isfile |-> isfile, opened |-> opened]

\* Seeded fault: the slice leaves the dot out
HasExtension_NoDot(v, e) == Slice(v, Len(e)) = e

\* path_or_content[-len(expected_extension)-1:] == ".%s" % expected_extension
HasExtension(v, e) == Slice(v, Len(e) + 1) = <<".">> \o e

\* Seeded fault: a text that names an existing file is opened, whatever its end
get_string_buffer_FileFirst(x, e, fs) ==
    IF x.type = "str" THEN
        IF x.val \in fs
        THEN Returns(TextFile(x.val), x, <<x.val>>,
                     <<Opened(x.val, "r", FALSE)>>)
        ELSE IF HasExtension(x.val, e)
        THEN Raises("FileNotFoundError", <<x.val>>, <<>>)
        ELSE Returns(StringIO(x.val), PyNone, <<x.val>>, <<>>)
    ELSE IF x.type = "TextIOBase" THEN Returns(x, PyNone, <<>>, <<>>)
    ELSE IF x.type \in {"bytes", "BufferedIOBase"} THEN
        IF Decodable(x.val)
        THEN Returns(StringIO(Decode(x.val)), PyNone, <<>>, <<>>)
        ELSE Raises("UnicodeDecodeError", <<>>, <<>>)
    ELSE Raises("ValueError", <<>>, <<>>)

\* buffer, path = get_string_buffer(x, e), with os.path.isfile as `fs`
get_string_buffer(x, e, fs) ==
    IF x.type = "str" THEN
        IF HasExtension(x.val, e) THEN
            IF x.val \notin fs
            THEN Raises("FileNotFoundError", <<x.val>>, <<>>)
            ELSE Returns(TextFile(x.val), x, <<x.val>>,
                         <<Opened(x.val, "r", FALSE)>>)
        ELSE Returns(StringIO(x.val), PyNone, <<>>, <<>>)
    ELSE IF x.type = "TextIOBase" THEN Returns(x, PyNone, <<>>, <<>>)
    ELSE IF x.type \in {"bytes", "BufferedIOBase"} THEN
        IF Decodable(x.val)
        THEN Returns(StringIO(Decode(x.val)), PyNone, <<>>, <<>>)
        ELSE Raises("UnicodeDecodeError", <<>>, <<>>)
    ELSE Raises("ValueError", <<>>, <<>>)

\* Seeded fault: a text that names no file is taken for content
to_buffer_ContentFallback(x, fs) ==
    IF x.type = "str" THEN
        IF x.val \notin fs
        THEN Returns(PyNone, StringIO(x.val), <<x.val>>, <<>>)
        ELSE Returns(x, TextFile(x.val), <<x.val>>,
                     <<Opened(x.val, "rb", TRUE), Opened(x.val, "r", FALSE)>>)
    ELSE Returns(PyNone, x, <<>>, <<>>)

\* Seeded fault: the pair is returned in get_string_buffer's order
to_buffer_Swapped(x, fs) ==
    IF x.type = "str" THEN
        IF x.val \notin fs
        THEN Raises("FileNotFoundError", <<x.val>>, <<>>)
        ELSE Returns(TextFile(x.val), x, <<x.val>>,
                     <<Opened(x.val, "rb", TRUE), Opened(x.val, "r", FALSE)>>)
    ELSE Returns(x, PyNone, <<>>, <<>>)

\* path, buffer = to_buffer(x)
to_buffer(x, fs) ==
    IF x.type = "str" THEN
        IF x.val \notin fs
        THEN Raises("FileNotFoundError", <<x.val>>, <<>>)
        ELSE Returns(x, TextFile(x.val), <<x.val>>,
                     <<Opened(x.val, "rb", TRUE), Opened(x.val, "r", FALSE)>>)
    ELSE Returns(PyNone, x, <<>>, <<>>)

InitBuf ==
    /\ beat_freq = "none"
    /\ hasFlush = [s \in Streams |-> FALSE]
    /\ script = <<>>
    /\ ProcInit
    /\ call = "idle"
    /\ path_or_content \in Arguments
    /\ expected_extension \in Extensions
    /\ files \in {{}} \cup {{v} : v \in Texts \ {<<>>}}
    /\ ret = NoCall

CallGetStringBuffer ==
    /\ call = "idle"
    /\ call' = "get_string_buffer"
    /\ ret' = get_string_buffer(path_or_content, expected_extension, files)
    /\ UNCHANGED <<procVars, path_or_content, expected_extension, files>>

CallToBuffer ==
    /\ call = "idle"
    /\ call' = "to_buffer"
    /\ ret' = to_buffer(path_or_content, files)
    /\ UNCHANGED <<procVars, path_or_content, expected_extension, files>>

NextBuf ==
    \/ CallGetStringBuffer
    \/ CallToBuffer

SpecBuf == InitBuf /\ [][NextBuf]_vars

\* ================================================================= claims
\* What sink d received from anybody but its own relay and the supervisor.
ForeignWrites(d) ==
    SelectSeq(sink[d], LAMBDA e : e.by # d /\ e.by # Supervisor)

\* The text the relay owes its sink for the i-th line of stream s.
Forwarded(s, i) == IF i \in decodeErr[s] THEN Placeholder ELSE Line(s, i)

\* The writes of the supervisor that stdout_sink received.
Beats == Len(SelectSeq(sink["out"], LAMBDA e : e.by = Supervisor))

\* C1: a relay that ran until its source's end-of-stream made exactly one
\* write per line the source yielded, each equal to the line (the placeholder
\* where the read raised a decode error), in the order written, and wrote
\* nothing else to any sink.
C1_RelayForwardsAll ==
    \A s \in Streams :
        t[s] = "eof" =>
            /\ Len(RelayWrites(s)) = wrote[s]
            /\ \A i \in 1..wrote[s] : RelayWrites(s)[i].text = Forwarded(s, i)
            /\ \A d \in Streams : ForeignWrites(d) = <<>>

C1_Witness ==
    /\ t["out"] = "eof"
    /\ wrote["out"] = 2
    /\ decodeErr["out"] = {1}
    /\ Len(RelayWrites("out")) = 2

\* C2 (as claimed): when run_subprocess returns, and no sink raised in a
\* relay, every line the child wrote to a stream has been written to that
\* stream's sink, in the order written.
C2_AllOutputRelayed ==
    (sup = "returned" /\ \A s \in Streams : t[s] # "dead") =>
        \A s \in Streams :
            /\ Len(RelayWrites(s)) = wrote[s]
            /\ \A i \in 1..wrote[s] : RelayWrites(s)[i].text = Forwarded(s, i)

\* The redirect_stream block of stream s has been left: its finally clause
\* has run to its end (run_subprocess leaves the block of stderr first).
Released(s) ==
    \/ sup \in {"return", "close", "reap", "returned"}
    \/ sup = "raised" /\ proc # "none"
    \/ s = "err" /\ sup \in {"exit_out", "join_out"}

\* C3: once a redirect_stream block has been left, normally or by an
\* exception, its stop flag is set and its thread has terminated, and from
\* then on the thread takes no step: it reads nothing more from its source
\* and writes nothing more to its destination.
C3_ReleaseJoins ==
    [][\A s \in Streams :
          /\ Released(s)' => (stop_event'[s] /\ Terminated(s)')
          /\ Released(s) =>
                /\ t'[s] = t[s]
                /\ Len(pipe'[s]) >= Len(pipe[s])
                /\ RelayWrites(s)' = RelayWrites(s)]_vars

C3_Witness ==
    /\ Released("out")
    /\ Released("err")
    /\ exc
    /\ t["out"] = "stopped"
    /\ t["err"] = "eof"
    /\ proc = "exited"

\* C4: with no exception raised, stdout_sink has received one heartbeat per
\* timeout of the wait (one fewer while the heartbeat of the last timeout is
\* being written), the write of a heartbeat is followed by the wait, timeouts
\* happen only with a beat period, and once a wait has observed termination
\* no further heartbeat is written.
C4_Heartbeat ==
    /\ [](/\ ~exc => Beats = (IF sup = "beat" THEN timeouts - 1 ELSE timeouts)
          /\ timeouts > 0 => beat_freq = "set")
    /\ [][/\ (sup = "beat" /\ sup' # "beat" /\ ~exc') =>
                (sup' = "wait" /\ Beats' = Beats + 1)
          /\ returncode # None => (Beats' = Beats /\ timeouts' = timeouts)]_vars

C4_Witness ==
    /\ sup = "returned"
    /\ timeouts = 2
    /\ Beats = 2

\* C5 (as claimed): each sink is written by its own relay only, and the
\* supervisor is never about to write stdout_sink while the stdout relay is
\* about to write it.
C5_SingleWriter ==
    /\ \A s \in Streams : \A i \in 1..Len(sink[s]) : sink[s][i].by = s
    /\ ~(sup = "beat" /\ t["out"] = "write")

\* C5 (amended): stderr_sink is written by the stderr relay only; stdout_sink
\* is written by the stdout relay and by the supervisor, whose writes are
\* heartbeats and are made only with a beat period; no relay writes the
\* other relay's sink.
C5_SinkWriters ==
    /\ \A i \in 1..Len(sink["err"]) : sink["err"][i].by = "err"
    /\ \A i \in 1..Len(sink["out"]) :
          \/ sink["out"][i].by = "out"
          \/ /\ sink["out"][i].by = Supervisor
             /\ sink["out"][i].text = Message
             /\ beat_freq = "set"

C5_Witness ==
    /\ sup = "beat"
    /\ t["out"] = "write"
    /\ Beats = 1
    /\ sink["err"] # <<>>

\* C6: whenever run_subprocess has returned or raised after the child was
\* started, both stop flags are set, both relay threads have terminated, the
\* pipes are closed and the child has been waited for.
C6_CleanupOnExit ==
    (sup \in {"returned", "raised"} /\ proc # "none") =>
        /\ \A s \in Streams : stop_event[s] /\ Terminated(s)
        /\ ~rdOpen
        /\ proc = "exited"
        /\ returncode = status

C6_Witness ==
    /\ sup = "raised"
    /\ proc = "exited"
    /\ Beats < timeouts
    /\ wrote["out"] > 0

\* C7 (as claimed): after a relay thread has died of a sink error, the
\* supervisor is not stuck: run_subprocess has returned the child's exit
\* code, or some party can still take a step towards it.  Stated for a call
\* without a beat period, where the supervisor's only wait is for the child.
C7_ReturnsDespiteDeadRelay ==
    (beat_freq = "none" /\ \E s \in Streams : t[s] = "dead") =>
        \/ sup = "returned" /\ result = status
        \/ ENABLED Next

\* C8: what run_subprocess returns is the child's exit code, whatever the
\* code and however many heartbeats were written; an exception leaves a
\* started run only from a heartbeat, never because of the exit code.
C8_ReturnsExitCode ==
    /\ sup = "returned" => (result # None /\ result = status /\ ~exc)
    /\ (exc /\ proc # "none") => timeouts > 0

C8_Witness ==
    /\ sup = "returned"
    /\ result = <<1>>
    /\ timeouts = 2

\* C9: when the command cannot be started the failure leaves run_subprocess
\* with no relay thread, no process and no pipe, no timeout taken and nothing
\* written to either sink; relay threads and heartbeats exist only after a
\* successful start.
C9_StartFailure ==
    /\ (sup = "raised" /\ proc = "none") =>
          /\ \A s \in Streams : t[s] = "none" /\ sink[s] = <<>> /\ ~stop_event[s]
          /\ timeouts = 0
          /\ ~rdOpen
          /\ returncode = None
          /\ result = None
    /\ ((\E s \in Streams : t[s] # "none") \/ timeouts > 0) => proc # "none"

C9_Witness ==
    /\ sup = "raised"
    /\ proc = "none"
    /\ exc
    /\ script # <<>>
    /\ beat_freq = "set"

\* C10: every write of a relay is the line at its position or, where reading
\* that line raised a decode error, the placeholder as one whole write; a
\* decode error leaves the relay about to write the placeholder, not dead of
\* it, and the lines after it are forwarded at their positions.
C10_DecodeErrorRecovered ==
    \A s \in Streams :
        /\ \A i \in 1..Len(RelayWrites(s)) :
               RelayWrites(s)[i].text = Forwarded(s, i)
        /\ \A i \in decodeErr[s] :
               i > Len(RelayWrites(s)) =>
                   /\ i = Len(RelayWrites(s)) + 1
                   /\ content[s] = Placeholder
                   /\ t[s] \in {"write", "dead"}

C10_Witness ==
    /\ decodeErr["err"] = {1}
    /\ Len(RelayWrites("err")) = 2
    /\ RelayWrites("err")[1].text = Placeholder
    /\ RelayWrites("err")[2].text = Line("err", 2)

\* v ends in a dot followed by e
EndsWithDotExt(v, e) ==
    \E k \in 0..Len(v) : v = SubSeq(v, 1, k) \o <<".">> \o e

\* The argument is a text ending in '.<expected_extension>'.
PathShaped ==
    /\ path_or_content.type = "str"
    /\ EndsWithDotExt(path_or_content.val, expected_extension)

\* C11: whenever get_string_buffer returns, the path it returns is not None
\* exactly when the argument is a text ending in '.<expected_extension>' that
\* names an existing file, and then the path is the argument; for any other
\* text, for bytes and for open text and byte streams the path is None.
C11_PathIffPathInput ==
    (call = "get_string_buffer" /\ ret.raised = "none") =>
        /\ ret.value[2] # PyNone <=>
              (PathShaped /\ path_or_content.val \in files)
        /\ ret.value[2] # PyNone => ret.value[2] = path_or_content

C11_Witness ==
    /\ call = "get_string_buffer"
    /\ path_or_content = Str(<<"a", ".", "x">>)
    /\ expected_extension = <<"x">>
    /\ ret.raised = "none"
    /\ ret.value[2] = path_or_content

\* C12: get_string_buffer wraps a text that does not end in
\* '.<expected_extension>' in a new in-memory stream holding the text, with
\* path None, without asking the filesystem or opening anything, also when a
\* file of that name exists; it returns an open text stream as the same
\* object; and for a type it does not know it raises ValueError and returns
\* nothing.
C12_Classification ==
    call = "get_string_buffer" =>
        /\ (path_or_content.type = "str" /\ ~PathShaped) =>
              ret = Returns(StringIO(path_or_content.val), PyNone, <<>>, <<>>)
        /\ path_or_content.type = "TextIOBase" =>
              (ret.raised = "none" /\ ret.value[1] = path_or_content)
        /\ path_or_content.type \notin
                  {"str", "TextIOBase", "bytes", "BufferedIOBase"} =>
              (ret.raised = "ValueError" /\ ret.value = <<>>)

C12_Witness ==
    /\ call = "get_string_buffer"
    /\ path_or_content = Str(<<"a", "x">>)
    /\ expected_extension = <<"x">>
    /\ path_or_content.val \in files
    /\ ret.value[1] = StringIO(<<"a", "x">>)

\* C13: get_string_buffer on a text ending in '.<expected_extension>' that
\* names no file, and to_buffer on a text that names no file, raise
\* FileNotFoundError having opened nothing and return nothing.
C13_NotFound ==
    /\ (call = "get_string_buffer" /\ PathShaped
            /\ path_or_content.val \notin files) =>
          ret = Raises("FileNotFoundError", <<path_or_content.val>>, <<>>)
    /\ (call = "to_buffer" /\ path_or_content.type = "str"
            /\ path_or_content.val \notin files) =>
          ret = Raises("FileNotFoundError", <<path_or_content.val>>, <<>>)

C13_Witness ==
    /\ call = "to_buffer"
    /\ path_or_content = Str(<<"a", ".", "x">>)
    /\ files = {}
    /\ ret.raised = "FileNotFoundError"
    /\ ret.opened = <<>>

C15_CooperativeStop ==
    /\ [](\A s \in Streams :
            stop_event[s] =>
                /\ Len(RelayWrites(s)) <= stopAt[s] + 1
                /\ Len(RelayWrites(s)) = stopAt[s] + 1 =>
                       t[s] \in {"flush", "check", "stopped", "dead"})
    /\ [][\A s \in Streams :
            /\ (t'[s] = "read" /\ t[s] # "read") =>
                  (t[s] = "check" /\ ~stop_event[s])
            /\ (t'[s] = "stopped" /\ t[s] # "stopped") =>
                  (t[s] = "check" /\ stop_event[s])
            /\ (stop_event[s] /\ t[s] = "check" /\ t'[s] # "check") =>
                  t'[s] = "stopped"]_vars

C15_Witness ==
    /\ stop_event["out"]
    /\ Len(RelayWrites("out")) = stopAt["out"] + 1
    /\ t["out"] = "stopped"
    /\ pipe["out"] # <<>>

\* run_subprocess has come to its end, by return or by exception.
Finished == sup \in {"returned", "raised"}

\* C16: under fair scheduling, once the child has exited (which closes the
\* write ends of both pipes) every relay blocked in a read leaves it, both
\* relay threads terminate and run_subprocess comes to its end: it returns,
\* unless a heartbeat raised, in which case that exception leaves it.
C16_Termination ==
    /\ (proc = "exited") ~> (Finished /\ \A s \in Streams : Terminated(s))
    /\ (proc = "exited" /\ ~exc) ~> (sup = "returned" \/ exc)
    /\ \A s \in Streams : (proc = "exited" /\ t[s] = "read") ~> (t[s] # "read")

C16_Witness ==
    /\ sup = "returned"
    /\ t["out"] = "eof"
    /\ t["err"] = "stopped"
    /\ timeouts = 1
    /\ wrote["out"] = 1

\* C17: a sink with a flush has been flushed once for each write its relay
\* made, the flush of a write coming before the next read (only while that
\* flush is under way is it one short); a sink without a flush is never
\* flushed and its relay never calls one; the end-of-stream marker is never
\* written, and reading it flushes nothing.
C17_WriteThenFlush ==
    \A s \in Streams :
        LET w == Len(RelayWrites(s)) IN
        /\ \A i \in 1..w : RelayWrites(s)[i].text # EOS
        /\ ~hasFlush[s] => (flushes[s] = 0 /\ t[s] # "flush")
        /\ hasFlush[s] =>
              IF t[s] = "flush" THEN flushes[s] = w - 1
              ELSE IF t[s] = "dead" THEN flushes[s] \in {w - 1, w}
              ELSE flushes[s] = w

C17_Witness ==
    /\ hasFlush["out"]
    /\ ~hasFlush["err"]
    /\ t["out"] = "eof"
    /\ t["err"] = "eof"
    /\ flushes["out"] = 1
    /\ Len(RelayWrites("err")) = 1

\* C18: with no beat period the wait never times out: no timeout is counted,
\* the supervisor writes no heartbeat and raises nothing once the child is
\* started, it has left the wait only with the child exited, and every write
\* stdout_sink received is the stdout relay's.
C18_NoBeatPeriod ==
    beat_freq = "none" =>
        /\ timeouts = 0
        /\ sup # "beat"
        /\ Beats = 0
        /\ \A i \in 1..Len(sink["out"]) : sink["out"][i].by = "out"
        /\ exc => proc = "none"
        /\ sup \notin {"popen", "enter_out", "enter_err", "wait", "raised"} =>
              (proc = "exited" /\ returncode = status)

C18_Witness ==
    /\ beat_freq = "none"
    /\ sup = "returned"
    /\ Len(sink["out"]) = 2

\* C19: after a successful start run_subprocess has come to its end, by
\* return or by exception, only with the child terminated and waited for;
\* the child ends by its own exit on the normal path, and the pipes are
\* closed under a running child only when an exception is leaving.
C19_ChildOutlivedNever ==
    /\ (Finished /\ proc # "none") => (proc = "exited" /\ returncode = status)
    /\ status = SigPipe => exc
    /\ (proc = "running" /\ ~rdOpen) => exc

C19_Witness ==
    /\ sup = "raised"
    /\ proc = "exited"
    /\ script # <<>>

\* What stdout_sink received, the supervisor's writes deleted.
NonBeats == SelectSeq(sink["out"], LAMBDA e : e.by # Supervisor)

\* The lines the stdout relay has taken from its pipe.
ReadByOut == wrote["out"] - Len(pipe["out"])

\* C20: every write stdout_sink received is a whole heartbeat or a whole
\* write of the stdout relay; with the heartbeats deleted what is left is
\* the lines the relay forwarded, each at its position, as many as the relay
\* has read less the one it is about to write.
C20_HeartbeatsBetweenLines ==
    /\ \A i \in 1..Len(sink["out"]) :
          \/ sink["out"][i] = [by |-> Supervisor, text |-> Message]
          \/ sink["out"][i].by = "out"
    /\ \A i \in 1..Len(NonBeats) :
          NonBeats[i] = [by |-> "out", text |-> Forwarded("out", i)]
    /\ IF t["out"] = "dead"
       THEN Len(NonBeats) \in {ReadByOut - 1, ReadByOut}
       ELSE Len(NonBeats) = ReadByOut - (IF t["out"] = "write" THEN 1 ELSE 0)

C20_Witness ==
    sink["out"] = << [by |-> "out", text |-> Line("out", 1)],
                     [by |-> Supervisor, text |-> Message],
                     [by |-> "out", text |-> Line("out", 2)] >>

====
